---- MODULE Spec2Model ----
(***************************************************************************)
(* Credential scheduling in the API proxy gateway.                         *)
(*                                                                         *)
(* The gateway keeps two records per API key: the LoadBalancer's           *)
(* ApiKeyInfo (status, failureCount, requestCount, successCount,           *)
(* circuitBreakerResetTime), which decides selection, and the              *)
(* CircuitBreakerManager's CircuitBreakerInstance (state, stats,           *)
(* nextAttemptTime, halfOpenSuccessCount), which is the health state       *)
(* machine.  RequestHandler.handleChatCompletions drives                   *)
(* both.  Node runs a handler without interruption up to its first await,  *)
(* so the part of handleChatCompletions before the upstream call is one    *)
(* step and the part after the upstream call returned is another.          *)
(*                                                                         *)
(* Three further parts are modelled on their own variables: the response  *)
(* of a chat request (res), one call of the upstream client with its       *)
(* retry loop (call), and the read loop that relays an upstream event      *)
(* stream (sse).                                                           *)
(*                                                                         *)
(* Time is a counter of clock ticks; resetTimeout is a number of ticks.    *)
(* Fields that no transition reads are left out: lastFailureTime,          *)
(* lastSuccessTime, and halfOpenFailureCount, which transitionToOpen       *)
(* zeroes in the same call that increments it. The two time stamps that    *)
(* only cleanup reads, stats.lastRequestTime and stateChangeTime, are kept *)
(* in a variable of their own.                                             *)
(***************************************************************************)
EXTENDS Integers, Sequences, FiniteSets, TLC

VARIABLES
    now,                \* the wall clock (new Date() / Date.now()), in ticks
    failureThreshold,   \* appConfig.circuitBreaker.failureThreshold
    strategy,           \* LoadBalancer.strategy
    apiKeys,            \* LoadBalancer.apiKeys: key -> ApiKeyInfo
    keyOrder,           \* insertion order of LoadBalancer.apiKeys (a Map)
    roundRobinIndex,    \* LoadBalancer.roundRobinIndex
    circuitBreakers,    \* CircuitBreakerManager.circuitBreakers: key -> instance
    req,                \* one record per handleChatCompletions invocation slot
    lastSelection,      \* the last hand-out of selectRoundRobin: the list it chose
                        \* from and the key it returned
    res,                \* the Express response of each invocation slot
    call,               \* one call of GeminiClient (makeRequest / makeStreamRequest)
    sse,                \* the read loop of handleStreamingRequest over one stream
    stamps,             \* per existing breaker: stats.lastRequestTime, stateChangeTime
    verify,             \* one run of handleKeyVerification and its validation stream
    conv                \* one call of a conversion: its input and its result

vars == <<now, failureThreshold, strategy, apiKeys, keyOrder, roundRobinIndex,
          circuitBreakers, req, lastSelection, res, call, sse, stamps, verify,
          conv>>

\* The state of the breaker clean-up, the key validation and the conversions.
serviceVars == <<stamps, verify, conv>>

-----------------------------------------------------------------------------
(* Bounds of the model *)

MaxTime == 2
MaxRequests == 4
MaxFailureThreshold == 2
ResetTimeout == 1

Keys == {"k1", "k2", "k3"}
Slots == {1, 2}

NONE == -1
NoKey == "none"

\* The credential lists that inbound requests carry (already split, trimmed
\* and de-duplicated).
KeyLists == {<< >>, <<"k1">>, <<"k2", "k1">>}
KeyListsRR == {<< >>, <<"k1", "k2", "k3">>, <<"k2">>}

Strategies == {"round_robin", "random", "least_connections"}

\* What a request body is to the handler: rejected by parseOpenAIRequest,
\* accepted but rejected by OpenAIAdapter.convertRequestToGemini, or fine.
Bodies == {"invalid", "unconvertible", "ok"}

\* What the upstream call ends with.
Outcomes == {"ok", "rejected", "timeout", "bad_request"}

-----------------------------------------------------------------------------
(* Records *)

NewApiKeyInfo ==
    [registered |-> TRUE, status |-> "available", failureCount |-> 0,
     requestCount |-> 0, successCount |-> 0, circuitBreakerResetTime |-> NONE]

AbsentApiKeyInfo ==
    [registered |-> FALSE, status |-> "available", failureCount |-> 0,
     requestCount |-> 0, successCount |-> 0, circuitBreakerResetTime |-> NONE]

NewCircuitBreaker(t) ==
    [exists |-> TRUE, state |-> "closed", requestCount |-> 0, successCount |-> 0,
     failureCount |-> 0, nextAttemptTime |-> NONE,
     halfOpenSuccessCount |-> 0]

AbsentCircuitBreaker ==
    [exists |-> FALSE, state |-> "closed", requestCount |-> 0, successCount |-> 0,
     failureCount |-> 0, nextAttemptTime |-> NONE,
     halfOpenSuccessCount |-> 0]

IdleRequest ==
    [pc |-> "idle", keys |-> << >>, selectedApiKey |-> NoKey, attempts |-> << >>]

\* An Express response nothing was written to.
NoResponse ==
    [stream |-> FALSE, headersSent |-> FALSE, ended |-> FALSE, statusCode |-> 0,
     clientClosed |-> FALSE]

\* No error caught, no result yet.
NoError == [class |-> "none", statusCode |-> 0, message |-> "none"]

NoResult == [kind |-> "none", error |-> NoError]

\* No call of the upstream client in progress.
IdleCall ==
    [pc |-> "idle", stream |-> FALSE, retryCount |-> 0, attempt |-> 0,
     requests |-> 0, delay |-> 0, lastError |-> NoError, result |-> NoResult]

\* No stream being relayed.
IdleSse == [pc |-> "idle", reads |-> << >>, upstream |-> << >>, written |-> << >>]

\* No breaker exists: no time stamps.
NoStamps == [k \in {} |-> NONE]

\* No validation request received.
IdleVerify == [pc |-> "idle"]

\* No conversion called.
IdleConv == [pc |-> "idle"]

\* The scheduler's whole state, so that the calls of one handler compose.
Store == [lb |-> apiKeys, order |-> keyOrder, rr |-> roundRobinIndex,
          cb |-> circuitBreakers]

-----------------------------------------------------------------------------
(* LoadBalancer *)

\* addApiKey that stores a fresh ApiKeyInfo for a key it already has.
addApiKeyOverwrites(S, k) ==
    IF S.lb[k].registered
    THEN [S EXCEPT !.lb[k] = NewApiKeyInfo]
    ELSE [S EXCEPT !.lb[k] = NewApiKeyInfo, !.order = Append(S.order, k)]

\* addApiKey: a key already in the map is left alone; a new key is appended
\* to the map with a fresh ApiKeyInfo.
addApiKey(S, k) ==
    IF S.lb[k].registered
    THEN S
    ELSE [S EXCEPT !.lb[k] = NewApiKeyInfo, !.order = Append(S.order, k)]

\* addApiKeys: forEach over the list, in order.
RECURSIVE addApiKeys(_, _)
addApiKeys(S, keys) ==
    IF keys = << >> THEN S
    ELSE addApiKeys(addApiKey(S, Head(keys)), Tail(keys))

\* Array.from(map.values()).filter(pred): the keys, in insertion order,
\* whose record has the given status.
RECURSIVE FilterStatus(_, _, _)
FilterStatus(lb, order, status) ==
    IF order = << >> THEN << >>
    ELSE IF lb[Head(order)].status = status
         THEN <<Head(order)>> \o FilterStatus(lb, Tail(order), status)
         ELSE FilterStatus(lb, Tail(order), status)

getAvailableKeys(S) == FilterStatus(S.lb, S.order, "available")

\* selectRoundRobin without the modulo: past the end of the array the
\* element is undefined.
selectRoundRobinNoWrap(S, availableKeys) ==
    [key |-> IF S.rr < Len(availableKeys) THEN availableKeys[S.rr + 1] ELSE NoKey,
     rr  |-> S.rr + 1]

\* selectRoundRobin without the advance of the index.
selectRoundRobinStuck(S, availableKeys) ==
    [key |-> availableKeys[(S.rr % Len(availableKeys)) + 1], rr |-> S.rr]

\* selectRoundRobin: the key at roundRobinIndex % length, and the advanced
\* index.  Sequences are 1-based, arrays 0-based.
selectRoundRobin(S, availableKeys) ==
    [key |-> availableKeys[(S.rr % Len(availableKeys)) + 1],
     rr  |-> (S.rr + 1) % Len(availableKeys)]

\* selectRandom: Math.floor(Math.random() * length) is the draw `pick`.
selectRandom(S, availableKeys, pick) ==
    [key |-> availableKeys[(pick % Len(availableKeys)) + 1], rr |-> S.rr]

\* selectLeastConnections: the first key with the least requestCount.
RECURSIVE LeastFrom(_, _, _)
LeastFrom(lb, best, rest) ==
    IF rest = << >> THEN best
    ELSE IF lb[Head(rest)].requestCount < lb[best].requestCount
         THEN LeastFrom(lb, Head(rest), Tail(rest))
         ELSE LeastFrom(lb, best, Tail(rest))

selectLeastConnections(S, availableKeys) ==
    [key |-> LeastFrom(S.lb, availableKeys[1], availableKeys), rr |-> S.rr]

\* selectApiKey with the round-robin index advanced before the check for an
\* empty list.
selectApiKeyAdvancesFirst(S, strat, pick) ==
    LET availableKeys == getAvailableKeys(S) IN
    IF Len(availableKeys) = 0
    THEN [ok |-> FALSE, key |-> NoKey, available |-> availableKeys,
          roundRobin |-> FALSE, S |-> [S EXCEPT !.rr = @ + 1]]
    ELSE LET sel == CASE strat = "random" -> selectRandom(S, availableKeys, pick)
                      [] strat = "least_connections" ->
                             selectLeastConnections(S, availableKeys)
                      [] OTHER -> selectRoundRobin(S, availableKeys)
         IN [ok |-> TRUE, key |-> sel.key, available |-> availableKeys,
             roundRobin |-> strat \notin {"random", "least_connections"},
             S |-> [S EXCEPT !.rr = sel.rr,
                             !.lb[sel.key].requestCount = @ + 1]]

\* selectApiKey: throws (ok = FALSE, nothing changed) when no key is
\* available; otherwise picks by strategy and counts the request.
selectApiKey(S, strat, pick) ==
    LET availableKeys == getAvailableKeys(S) IN
    IF Len(availableKeys) = 0
    THEN [ok |-> FALSE, key |-> NoKey, available |-> availableKeys,
          roundRobin |-> FALSE, S |-> S]
    ELSE LET sel == CASE strat = "random" -> selectRandom(S, availableKeys, pick)
                      [] strat = "least_connections" ->
                             selectLeastConnections(S, availableKeys)
                      [] OTHER -> selectRoundRobin(S, availableKeys)
         IN [ok |-> TRUE, key |-> sel.key, available |-> availableKeys,
             roundRobin |-> strat \notin {"random", "least_connections"},
             S |-> [S EXCEPT !.rr = sel.rr,
                             !.lb[sel.key].requestCount = @ + 1]]

\* LoadBalancer.recordSuccess
LoadBalancer_recordSuccess(S, k) ==
    IF ~S.lb[k].registered THEN S
    ELSE [S EXCEPT !.lb[k] =
            [@ EXCEPT !.successCount = @ + 1,
                      !.failureCount = 0,
                      !.status = "available",
                      !.circuitBreakerResetTime =
                          IF S.lb[k].status = "circuit_broken" THEN NONE ELSE @]]

\* circuitBreakApiKey
circuitBreakApiKey(S, k, t) ==
    IF ~S.lb[k].registered THEN S
    ELSE [S EXCEPT !.lb[k].status = "circuit_broken",
                   !.lb[k].circuitBreakerResetTime = t + ResetTimeout]

\* LoadBalancer.recordFailure
LoadBalancer_recordFailure(S, k, threshold, t) ==
    IF ~S.lb[k].registered THEN S
    ELSE LET S1 == [S EXCEPT !.lb[k].failureCount = @ + 1] IN
         IF S1.lb[k].failureCount >= threshold
         THEN circuitBreakApiKey(S1, k, t)
         ELSE S1

\* The recovery of one key that deletes the reset time and the failure count
\* but leaves the status.
RecoverOneKeepsStatus(info, t) ==
    IF /\ info.registered
       /\ info.status = "circuit_broken"
       /\ info.circuitBreakerResetTime # NONE
       /\ t >= info.circuitBreakerResetTime
    THEN [info EXCEPT !.failureCount = 0, !.circuitBreakerResetTime = NONE]
    ELSE info

\* checkAndRecoverCircuitBrokenKeys: every circuit-broken key whose reset
\* time has come is made available again.
RecoverOne(info, t) ==
    IF /\ info.registered
       /\ info.status = "circuit_broken"
       /\ info.circuitBreakerResetTime # NONE
       /\ t >= info.circuitBreakerResetTime
    THEN [info EXCEPT !.status = "available", !.failureCount = 0,
                      !.circuitBreakerResetTime = NONE]
    ELSE info

checkAndRecoverCircuitBrokenKeys(S, t) ==
    [S EXCEPT !.lb = [k \in Keys |-> RecoverOne(S.lb[k], t)]]

-----------------------------------------------------------------------------
(* CircuitBreakerManager *)

\* getOrCreateCircuitBreaker: a fresh CLOSED instance on first use.
getOrCreateCircuitBreaker(S, k, t) ==
    IF S.cb[k].exists THEN S
    ELSE [S EXCEPT !.cb[k] = NewCircuitBreaker(t)]

\* shouldTripCircuitBreaker that trips only from the second failure on.
shouldTripFromSecondFailure(c, threshold) ==
    c.failureCount >= threshold /\ c.failureCount >= 2

\* shouldTripCircuitBreaker with > for >=: one failure late.
shouldTripAboveThreshold(c, threshold) == c.failureCount > threshold

\* shouldTripCircuitBreaker
shouldTripCircuitBreaker(c, threshold) == c.failureCount >= threshold

\* transitionToOpen without the clearing of halfOpenSuccessCount.
transitionToOpenKeepsProbeCount(c, t) ==
    [c EXCEPT !.state = "open", !.nextAttemptTime = t + ResetTimeout]

\* transitionToOpen
transitionToOpen(c, t) ==
    [c EXCEPT !.state = "open",
              !.nextAttemptTime = t + ResetTimeout, !.halfOpenSuccessCount = 0]

\* transitionToHalfOpen without the delete of nextAttemptTime.
transitionToHalfOpenKeepsDeadline(c, t) ==
    [c EXCEPT !.state = "half_open", !.halfOpenSuccessCount = 0]

\* transitionToHalfOpen
transitionToHalfOpen(c, t) ==
    [c EXCEPT !.state = "half_open",
              !.halfOpenSuccessCount = 0, !.nextAttemptTime = NONE]

\* resetFailureCount
resetFailureCount(c) == [c EXCEPT !.failureCount = 0]

\* transitionToClosed: nextAttemptTime is not touched.
transitionToClosed(c, t) ==
    resetFailureCount([c EXCEPT !.state = "closed", !.halfOpenSuccessCount = 0])

\* allowRequest: counts the request, then admits it unless the breaker is
\* OPEN and its nextAttemptTime has not come (ok = FALSE: the
\* CircuitBreakerException).
allowRequest(S, k, t) ==
    LET S1 == getOrCreateCircuitBreaker(S, k, t)
        c  == [S1.cb[k] EXCEPT !.requestCount = @ + 1]
    IN  IF c.state = "open"
        THEN IF c.nextAttemptTime # NONE /\ t >= c.nextAttemptTime
             THEN [ok |-> TRUE, S |-> [S1 EXCEPT !.cb[k] = transitionToHalfOpen(c, t)]]
             ELSE [ok |-> FALSE, S |-> [S1 EXCEPT !.cb[k] = c]]
        ELSE [ok |-> TRUE, S |-> [S1 EXCEPT !.cb[k] = c]]

\* The number of probe successes that close a HALF_OPEN breaker.
ProbesToClose == 3

\* CircuitBreakerManager.recordSuccess
CircuitBreaker_recordSuccess(S, k, t) ==
    IF ~S.cb[k].exists THEN S
    ELSE LET c == [S.cb[k] EXCEPT !.successCount = @ + 1] IN
         CASE c.state = "half_open" ->
                LET c1 == [c EXCEPT !.halfOpenSuccessCount = @ + 1] IN
                [S EXCEPT !.cb[k] = IF c1.halfOpenSuccessCount >= ProbesToClose
                                    THEN transitionToClosed(c1, t)
                                    ELSE c1]
           [] c.state = "closed" -> [S EXCEPT !.cb[k] = resetFailureCount(c)]
           [] OTHER -> [S EXCEPT !.cb[k] = c]

\* CircuitBreakerManager.recordFailure
CircuitBreaker_recordFailure(S, k, threshold, t) ==
    LET S1 == getOrCreateCircuitBreaker(S, k, t)
        c  == [S1.cb[k] EXCEPT !.failureCount = @ + 1]
    IN  CASE c.state = "closed" ->
               [S1 EXCEPT !.cb[k] = IF shouldTripCircuitBreaker(c, threshold)
                                    THEN transitionToOpen(c, t)
                                    ELSE c]
          [] c.state = "half_open" -> [S1 EXCEPT !.cb[k] = transitionToOpen(c, t)]
          [] OTHER -> [S1 EXCEPT !.cb[k] = c]

\* CircuitBreakerManager.reset: the manual reset.
reset(S, k, t) ==
    IF S.cb[k].exists
    THEN [S EXCEPT !.cb[k] = transitionToClosed(S.cb[k], t)]
    ELSE S

-----------------------------------------------------------------------------
(* RequestHandler *)

\* RequestHandler.recordSuccess: the load balancer, then the breaker.
recordSuccess(S, k, t) ==
    CircuitBreaker_recordSuccess(LoadBalancer_recordSuccess(S, k), k, t)

\* RequestHandler.recordFailure: the load balancer, then the breaker.
recordFailure(S, k, threshold, t) ==
    CircuitBreaker_recordFailure(
        LoadBalancer_recordFailure(S, k, threshold, t), k, threshold, t)

\* extractApiKeys without the throw on an empty list.
extractApiKeysLenient(keys) == [ok |-> TRUE, keys |-> keys]

\* extractApiKeys: the parsed list, or the AuthenticationException
\* (ok = FALSE) when no header yields a key.
extractApiKeys(keys) == [ok |-> Len(keys) > 0, keys |-> keys]

\* The HTTP status of each answer: the statusCode of the exception thrown,
\* or 200.
statusCode(response) ==
    CASE response = "validation_error" -> 400
      [] response = "auth_missing" -> 401
      [] response = "no_key_available" -> 503
      [] response = "circuit_open" -> 503
      [] response = "conversion_error" -> 500
      [] OTHER -> 200

\* The synchronous part of handleChatCompletions, up to the upstream call:
\* parse, extract, register, select, admit, convert.  `out` is what becomes
\* of the scheduler state, `selected` the handler's selectedApiKey, `sel`
\* the selection made (if any), `response` the error written, or "none"
\* when the upstream call is started.
beginChat(S, body, keys, strat, pick, threshold, t) ==
    LET none == [ok |-> FALSE, key |-> NoKey, available |-> << >>,
                 roundRobin |-> FALSE, S |-> S] IN
    IF body = "invalid"
    THEN [out |-> S, selected |-> NoKey, sel |-> none, response |-> "validation_error"]
    ELSE
    LET ex == extractApiKeys(keys) IN
    IF ~ex.ok
    THEN [out |-> S, selected |-> NoKey, sel |-> none, response |-> "auth_missing"]
    ELSE
    LET S1  == addApiKeys(S, ex.keys)
        sel == selectApiKey(S1, strat, pick)
    IN
    IF ~sel.ok
    THEN [out |-> S1, selected |-> NoKey, sel |-> sel, response |-> "no_key_available"]
    ELSE
    LET adm == allowRequest(sel.S, sel.key, t) IN
    IF ~adm.ok
    THEN [out |-> recordFailure(adm.S, sel.key, threshold, t),
          selected |-> sel.key, sel |-> sel, response |-> "circuit_open"]
    ELSE IF body = "unconvertible"
    THEN [out |-> recordFailure(adm.S, sel.key, threshold, t),
          selected |-> sel.key, sel |-> sel, response |-> "conversion_error"]
    ELSE [out |-> adm.S, selected |-> sel.key, sel |-> sel, response |-> "none"]

\* endChat with a throw after recordSuccess inside the try block: the catch
\* block records a failure for the request that was just recorded a success.
endChatRecordsBoth(S, k, outcome, threshold, t) ==
    IF outcome = "ok"
    THEN recordFailure(recordSuccess(S, k, t), k, threshold, t)
    ELSE recordFailure(S, k, threshold, t)

\* endChat with a catch block that swallows the timeout of the upstream
\* call without recording it.
endChatDropsTimeout(S, k, outcome, threshold, t) ==
    IF outcome = "ok"
    THEN recordSuccess(S, k, t)
    ELSE IF outcome = "timeout" THEN S
    ELSE recordFailure(S, k, threshold, t)

\* The rest of handleChatCompletions, once the upstream call has returned
\* or thrown: recordSuccess, or the catch block's recordFailure.
endChat(S, k, outcome, threshold, t) ==
    IF outcome = "ok"
    THEN recordSuccess(S, k, t)
    ELSE recordFailure(S, k, threshold, t)

-----------------------------------------------------------------------------
(* The state machine *)

NoSelection == [available |-> << >>, key |-> NoKey]

\* The scheduler after construction: no key registered, no breaker created.
InitScheduler ==
    /\ now = 0
    /\ failureThreshold \in 1..MaxFailureThreshold
    /\ strategy \in Strategies
    /\ apiKeys = [k \in Keys |-> AbsentApiKeyInfo]
    /\ keyOrder = << >>
    /\ roundRobinIndex = 0
    /\ circuitBreakers = [k \in Keys |-> AbsentCircuitBreaker]
    /\ req = [r \in Slots |-> IdleRequest]
    /\ lastSelection = NoSelection

\* Nothing cleaned up, validated or converted yet.
InitServices ==
    /\ stamps = NoStamps
    /\ verify = IdleVerify
    /\ conv = IdleConv

Init ==
    /\ InitScheduler
    /\ res = [r \in Slots |-> NoResponse]
    /\ call = IdleCall
    /\ sse = IdleSse
    /\ InitServices

SetStore(S) ==
    /\ apiKeys' = S.lb
    /\ keyOrder' = S.order
    /\ roundRobinIndex' = S.rr
    /\ circuitBreakers' = S.cb

\* The requests counted so far, over all keys: what bounds the model.
RECURSIVE SumRequests(_, _)
SumRequests(lb, ks) ==
    IF ks = {} THEN 0
    ELSE LET k == CHOOSE x \in ks : TRUE
         IN lb[k].requestCount + SumRequests(lb, ks \ {k})

TotalRequests == SumRequests(apiKeys, Keys)

\* Requests in progress take the lowest free slot: a slot is only a name
\* for one invocation of the handler.
FreeSlot(r) ==
    /\ req[r].pc = "idle"
    /\ \A q \in Slots : q < r => req[q].pc # "idle"

\* The draws of Math.random that matter: none unless the strategy is random.
Picks == IF strategy = "random" THEN 0..(Cardinality(Keys) - 1) ELSE {0}

\* A chat request arrives and runs up to its upstream call (or to the error
\* it answers with).
ChatRequest(r, body, keys, pick) ==
    /\ FreeSlot(r)
    /\ TotalRequests < MaxRequests
    /\ LET b == beginChat(Store, body, keys, strategy, pick, failureThreshold, now) IN
       /\ SetStore(b.out)
       /\ req' = IF b.response = "none"
                 THEN [req EXCEPT ![r] =
                         [pc |-> "awaiting", keys |-> keys,
                          selectedApiKey |-> b.selected,
                          attempts |-> <<b.selected>>]]
                 ELSE req
       /\ lastSelection' = IF b.sel.ok /\ b.sel.roundRobin
                           THEN [available |-> b.sel.available, key |-> b.sel.key]
                           ELSE lastSelection
    /\ UNCHANGED <<now, failureThreshold, strategy, res, call, sse, serviceVars>>

\* The upstream call of a request returns or throws, and the handler
\* records the outcome and answers.
UpstreamReturns(r, outcome) ==
    /\ req[r].pc = "awaiting"
    /\ SetStore(endChat(Store, req[r].selectedApiKey, outcome, failureThreshold, now))
    /\ req' = [req EXCEPT ![r] = IdleRequest]
    /\ UNCHANGED <<now, failureThreshold, strategy, lastSelection, res, call, sse, serviceVars>>

\* The periodic task of startPeriodicTasks fires.
Sweep ==
    /\ SetStore(checkAndRecoverCircuitBrokenKeys(Store, now))
    /\ UNCHANGED <<now, failureThreshold, strategy, req, lastSelection, res, call, sse, serviceVars>>

\* A manual reset of one key's breaker.
Reset(k) ==
    /\ circuitBreakers[k].exists
    /\ SetStore(reset(Store, k, now))
    /\ UNCHANGED <<now, failureThreshold, strategy, req, lastSelection, res, call, sse, serviceVars>>

\* The clock advances.
Tick ==
    /\ now < MaxTime
    /\ now' = now + 1
    /\ UNCHANGED <<failureThreshold, strategy, apiKeys, keyOrder, roundRobinIndex,
                   circuitBreakers, req, lastSelection, res, call, sse, serviceVars>>

NextOver(lists) ==
    \/ \E r \in Slots, body \in Bodies, keys \in lists, pick \in Picks :
           ChatRequest(r, body, keys, pick)
    \/ \E r \in Slots, outcome \in Outcomes : UpstreamReturns(r, outcome)
    \/ Sweep
    \/ \E k \in Keys : Reset(k)
    \/ Tick

Next == NextOver(KeyLists)

Spec == Init /\ [][Next]_vars

\* The round-robin configuration over three credentials.
InitRR == Init /\ strategy = "round_robin"

NextRR == NextOver(KeyListsRR)

SpecRR == InitRR /\ [][NextRR]_vars

\* The default configuration: round-robin over the credentials of KeyLists.
SpecDefault == InitRR /\ [][Next]_vars

-----------------------------------------------------------------------------
(* Vocabulary of the specification *)

\* health: ELIGIBLE, TRIPPED and PROBING are the breaker's CLOSED, OPEN and
\* HALF_OPEN; cooldown_until is the breaker's nextAttemptTime.
Tripped(c) == c.state = "open"
Probing(c) == c.state = "half_open"
Eligible(c) == c.state = "closed"

\* TRIPPED with the cooldown not yet elapsed at time t.
CoolingDown(c, t) == Tripped(c) /\ c.nextAttemptTime # NONE /\ t < c.nextAttemptTime

\* TRIPPED with the cooldown elapsed at time t.
CooledDown(c, t) == Tripped(c) /\ c.nextAttemptTime # NONE /\ t >= c.nextAttemptTime

\* A step in which a failure (a success) is recorded on the breaker.
FailureRecorded(c, d) == d.failureCount = c.failureCount + 1
SuccessRecorded(c, d) == d.successCount = c.successCount + 1

Range(seq) == {seq[i] : i \in 1..Len(seq)}

NoDuplicates(seq) == \A i, j \in 1..Len(seq) : seq[i] = seq[j] => i = j

IndexOf(seq, x) == CHOOSE i \in 1..Len(seq) : seq[i] = x

\* The upstream errors after which failover is due: a credential rejection
\* (401/403), a timeout or a 5xx.
FailoverEligible == {"rejected", "timeout"}

-----------------------------------------------------------------------------
(* GeminiClient: one call, with the retry loop of makeRequest *)

schedulerVars == <<now, failureThreshold, strategy, apiKeys, keyOrder,
                   roundRobinIndex, circuitBreakers, req, lastSelection>>

MaxRetryCount == 2
RetryDelay == 1

\* The HTTP statuses of a response that is not ok.
ErrorStatuses == {400, 401, 403, 404, 429, 500, 503}

\* What one attempt (fetchWithTimeout and the rest of the try block) ends
\* with: a parsed response; a body that JSON.parse rejects; the abort of the
\* timeout timer; an error thrown by fetch whose message names a timeout, a
\* network failure, or neither; a response with an error status.
AttemptOutcomes ==
    {[kind |-> "ok", status |-> 200],
     [kind |-> "parse_error", status |-> 200],
     [kind |-> "abort", status |-> 0],
     [kind |-> "fetch_timeout", status |-> 0],
     [kind |-> "fetch_network", status |-> 0],
     [kind |-> "fetch_other", status |-> 0]}
    \cup {[kind |-> "http", status |-> n] : n \in ErrorStatuses}

\* The error an attempt throws inside the try block of makeRequest (or of
\* makeStreamRequest).
thrown(outcome) ==
    CASE outcome.kind = "parse_error" ->
             [class |-> "ParseException", statusCode |-> 500, message |-> "parse"]
      [] outcome.kind = "abort" ->
             [class |-> "GatewayTimeoutException", statusCode |-> 504,
              message |-> "timeout"]
      [] outcome.kind = "fetch_timeout" ->
             [class |-> "Error", statusCode |-> 0, message |-> "timeout"]
      [] outcome.kind = "fetch_network" ->
             [class |-> "Error", statusCode |-> 0, message |-> "network"]
      [] outcome.kind = "fetch_other" ->
             [class |-> "Error", statusCode |-> 0, message |-> "other"]
      [] outcome.kind = "http" ->
             [class |-> "UpstreamServiceException", statusCode |-> outcome.status,
              message |-> "status"]
      [] OTHER -> NoError

\* shouldRetry
shouldRetry(error) ==
    IF error.class = "UpstreamServiceException"
    THEN error.statusCode \notin {400, 401, 403, 404}
    ELSE error.class \in {"GatewayTimeoutException", "NetworkException"}

\* wrapError
wrapError(error) ==
    IF error.class \in {"UpstreamServiceException", "GatewayTimeoutException",
                        "ParseException"}
    THEN error
    ELSE IF error.message = "timeout"
    THEN [class |-> "GatewayTimeoutException", statusCode |-> 504, message |-> "timeout"]
    ELSE IF error.message = "network"
    THEN [class |-> "NetworkException", statusCode |-> 500, message |-> "network"]
    ELSE [class |-> "UpstreamServiceException", statusCode |-> 502, message |-> "unknown"]

\* The retry condition of makeRequest with the attempt bound off by one.
retryAllowedOnceMore(attempt, retryCount, error) ==
    attempt <= retryCount /\ shouldRetry(error)

\* The retry condition of makeRequest's catch block.
retryAllowed(attempt, retryCount, error) ==
    attempt < retryCount /\ shouldRetry(error)

\* generateContent or generateContentStream is called: the first fetch.
StartCall(stream, retryCount) ==
    /\ call.pc \in {"idle", "done"}
    /\ call' = [pc |-> "fetching", stream |-> stream, retryCount |-> retryCount,
                attempt |-> 0, requests |-> 1, delay |-> 0,
                lastError |-> NoError, result |-> NoResult]
    /\ UNCHANGED <<schedulerVars, res, sse, serviceVars>>

\* The attempt in progress ends.  makeStreamRequest wraps and throws any
\* error; makeRequest retries after a delay or breaks out of the loop.
AttemptReturns(outcome) ==
    /\ call.pc = "fetching"
    /\ call.stream => outcome.kind # "parse_error"
    /\ call' =
         IF outcome.kind = "ok"
         THEN [call EXCEPT !.pc = "done",
                           !.result = [kind |-> "response", error |-> NoError]]
         ELSE IF call.stream
         THEN [call EXCEPT !.pc = "done",
                           !.result = [kind |-> "error",
                                       error |-> wrapError(thrown(outcome))]]
         ELSE IF retryAllowed(call.attempt, call.retryCount, thrown(outcome))
         THEN [call EXCEPT !.pc = "delaying",
                           !.lastError = thrown(outcome),
                           !.delay = RetryDelay * (call.attempt + 1)]
         ELSE [call EXCEPT !.pc = "done",
                           !.lastError = thrown(outcome),
                           !.result = [kind |-> "error",
                                       error |-> wrapError(thrown(outcome))]]
    /\ UNCHANGED <<schedulerVars, res, sse, serviceVars>>

\* The delay before a retry is over: the next attempt's fetch.
DelayElapses ==
    /\ call.pc = "delaying"
    /\ call' = [call EXCEPT !.pc = "fetching", !.attempt = @ + 1,
                            !.requests = @ + 1, !.delay = 0]
    /\ UNCHANGED <<schedulerVars, res, sse, serviceVars>>

InitClient == Init /\ strategy = "round_robin" /\ failureThreshold = 1

NextClient ==
    \/ \E stream \in BOOLEAN, retryCount \in 0..MaxRetryCount :
           StartCall(stream, retryCount)
    \/ \E outcome \in AttemptOutcomes : AttemptReturns(outcome)
    \/ DelayElapses

\* Every fetch ends (the timeout timer aborts it) and every delay timer
\* fires.
SpecClient == InitClient /\ [][NextClient]_vars /\ WF_vars(NextClient)

-----------------------------------------------------------------------------
(* handleChatCompletions with its response: buffered and streaming *)

\* The status handleError answers an upstream failure with: the statusCode
\* of the exception the client threw.
outcomeStatus(outcome) ==
    CASE outcome = "ok" -> 200
      [] outcome = "rejected" -> 401
      [] outcome = "timeout" -> 504
      [] outcome = "bad_request" -> 400
      [] OTHER -> 502

\* res.json / res.status(code).json: the whole response is written and ended.
Answered(response, code) ==
    [response EXCEPT !.headersSent = TRUE, !.ended = TRUE, !.statusCode = code]

\* handleError: writes the error unless the headers have been sent.
handleError(response, code) ==
    IF ~response.headersSent THEN Answered(response, code) ELSE response

\* A chat request arrives, with stream: true or not, and runs up to the
\* upstream call (or to the error it answers with).
ConnRequest(r, body, keys, pick, stream) ==
    /\ FreeSlot(r)
    /\ TotalRequests < MaxRequests
    /\ LET b == beginChat(Store, body, keys, strategy, pick, failureThreshold, now) IN
       /\ SetStore(b.out)
       /\ req' = IF b.response = "none"
                 THEN [req EXCEPT ![r] =
                         [pc |-> IF stream THEN "opening" ELSE "awaiting",
                          keys |-> keys, selectedApiKey |-> b.selected,
                          attempts |-> <<b.selected>>]]
                 ELSE req
       /\ res' = [res EXCEPT ![r] =
                    IF b.response = "none"
                    THEN [NoResponse EXCEPT !.stream = stream]
                    ELSE handleError(NoResponse, statusCode(b.response))]
       /\ lastSelection' = IF b.sel.ok /\ b.sel.roundRobin
                           THEN [available |-> b.sel.available, key |-> b.sel.key]
                           ELSE lastSelection
    /\ UNCHANGED <<now, failureThreshold, strategy, call, sse, serviceVars>>

\* handleNonStreamingRequest: generateContent returns or throws; the
\* response is written by res.json or by handleError.
UnaryReturns(r, outcome) ==
    /\ req[r].pc = "awaiting"
    /\ SetStore(endChat(Store, req[r].selectedApiKey, outcome, failureThreshold, now))
    /\ req' = [req EXCEPT ![r] = IdleRequest]
    /\ res' = [res EXCEPT ![r] = handleError(@, outcomeStatus(outcome))]
    /\ UNCHANGED <<now, failureThreshold, strategy, lastSelection, call, sse, serviceVars>>

\* handleStreamingRequest: generateContentStream returns the body stream.
StreamOpens(r) ==
    /\ req[r].pc = "opening"
    /\ req' = [req EXCEPT ![r].pc = "reading"]
    /\ UNCHANGED <<now, failureThreshold, strategy, apiKeys, keyOrder,
                   roundRobinIndex, circuitBreakers, lastSelection, res, call, sse, serviceVars>>

\* generateContentStream throws: nothing was written yet.
StreamOpenFails(r, outcome) ==
    /\ req[r].pc = "opening"
    /\ outcome # "ok"
    /\ SetStore(endChat(Store, req[r].selectedApiKey, outcome, failureThreshold, now))
    /\ req' = [req EXCEPT ![r] = IdleRequest]
    /\ res' = [res EXCEPT ![r] = handleError(@, outcomeStatus(outcome))]
    /\ UNCHANGED <<now, failureThreshold, strategy, lastSelection, call, sse, serviceVars>>

\* reader.read() returns bytes; res.write is called for each data line that
\* parses (wrote), which sends the headers.
StreamReads(r, wrote) ==
    /\ req[r].pc = "reading"
    /\ res' = [res EXCEPT ![r].headersSent = @ \/ wrote,
                          ![r].statusCode = IF wrote THEN 200 ELSE @]
    /\ UNCHANGED <<schedulerVars, call, sse, serviceVars>>

\* reader.read() returns done: the end marker is written, the response
\* ended and the success recorded.
StreamDone(r) ==
    /\ req[r].pc = "reading"
    /\ SetStore(endChat(Store, req[r].selectedApiKey, "ok", failureThreshold, now))
    /\ req' = [req EXCEPT ![r] = IdleRequest]
    /\ res' = [res EXCEPT ![r] = Answered(@, 200)]
    /\ UNCHANGED <<now, failureThreshold, strategy, lastSelection, call, sse, serviceVars>>

\* reader.read() throws: the catch block of handleChatCompletions records
\* the failure and calls handleError.
StreamReadFails(r) ==
    /\ req[r].pc = "reading"
    /\ SetStore(endChat(Store, req[r].selectedApiKey, "timeout", failureThreshold, now))
    /\ req' = [req EXCEPT ![r] = IdleRequest]
    /\ res' = [res EXCEPT ![r] = handleError(@, 502)]
    /\ UNCHANGED <<now, failureThreshold, strategy, lastSelection, call, sse, serviceVars>>

\* The client closes its connection while its request is in progress: no
\* handler is registered for it.
ClientCloses(r) ==
    /\ req[r].pc # "idle"
    /\ ~res[r].clientClosed
    /\ res' = [res EXCEPT ![r].clientClosed = TRUE]
    /\ UNCHANGED <<schedulerVars, call, sse, serviceVars>>

InitConn == Init /\ strategy = "round_robin"

NextConn ==
    \/ \E r \in Slots, body \in Bodies, keys \in KeyLists, pick \in Picks,
          stream \in BOOLEAN : ConnRequest(r, body, keys, pick, stream)
    \/ \E r \in Slots, outcome \in Outcomes : UnaryReturns(r, outcome)
    \/ \E r \in Slots : StreamOpens(r)
    \/ \E r \in Slots, outcome \in Outcomes : StreamOpenFails(r, outcome)
    \/ \E r \in Slots, wrote \in BOOLEAN : StreamReads(r, wrote)
    \/ \E r \in Slots : StreamDone(r)
    \/ \E r \in Slots : StreamReadFails(r)
    \/ \E r \in Slots : ClientCloses(r)

SpecConn == InitConn /\ [][NextConn]_vars

-----------------------------------------------------------------------------
(* The read loop of handleStreamingRequest over one upstream event stream *)

MaxEvents == 2

\* The text deltas that upstream events carry.
Deltas == {"a", "b"}

\* The bytes of one upstream event, "data: <json>\n\n", as five pieces: the
\* prefix "data: ", the JSON text of the chunk in two halves, and the two
\* line feeds.
EventBytes(d) ==
    <<[t |-> "prefix", d |-> ""], [t |-> "json1", d |-> d], [t |-> "json2", d |-> d],
      [t |-> "lf", d |-> ""], [t |-> "lf", d |-> ""]>>

RECURSIVE StreamBytes(_)
StreamBytes(ds) ==
    IF ds = << >> THEN << >> ELSE EventBytes(Head(ds)) \o StreamBytes(Tail(ds))

\* The network reads that deliver `bytes` when the stream is cut after each
\* position in `cuts`.
RECURSIVE ReadsFrom(_, _, _, _)
ReadsFrom(bytes, cuts, i, current) ==
    IF i > Len(bytes)
    THEN IF current = << >> THEN << >> ELSE <<current>>
    ELSE IF i \in cuts
    THEN <<Append(current, bytes[i])>> \o ReadsFrom(bytes, cuts, i + 1, << >>)
    ELSE ReadsFrom(bytes, cuts, i + 1, Append(current, bytes[i]))

DeltaSeqs == UNION {[1..n -> Deltas] : n \in 0..MaxEvents}

\* The read loop about to start on the stream of events `ds`, its bytes cut
\* into reads after the positions in `cuts`.
StreamInput(ds, cuts) ==
    [pc |-> "reading", upstream |-> ds, written |-> << >>,
     reads |-> ReadsFrom(StreamBytes(ds), cuts, 1, << >>)]

\* chunk.split('\n'): the pieces between line feeds, empty ones included.
RECURSIVE splitLines(_, _)
splitLines(chunk, current) ==
    IF chunk = << >> THEN <<current>>
    ELSE IF Head(chunk).t = "lf"
    THEN <<current>> \o splitLines(Tail(chunk), << >>)
    ELSE splitLines(Tail(chunk), Append(current, Head(chunk)))

\* line.startsWith('data: ')
startsWithData(line) == Len(line) >= 1 /\ line[1].t = "prefix"

\* JSON.parse(line.substring(6)) succeeds on the whole JSON text of a chunk
\* and throws on anything else (half a text, the empty string).
parses(line) ==
    /\ Len(line) = 3
    /\ line[2].t = "json1"
    /\ line[3].t = "json2"
    /\ line[2].d = line[3].d

\* convertStreamChunkToOpenAI / convertGeminiChunkToDelta: one chunk event
\* whose delta.content is the text of the parsed chunk.
convertStreamChunkToOpenAI(line) == [kind |-> "chunk", content |-> line[2].d]

\* The for loop over the lines of one read: a data line that parses is
\* relayed, every other line is skipped.
RECURSIVE relayLines(_)
relayLines(lines) ==
    IF lines = << >> THEN << >>
    ELSE (IF startsWithData(Head(lines)) /\ parses(Head(lines))
          THEN <<convertStreamChunkToOpenAI(Head(lines))>>
          ELSE << >>) \o relayLines(Tail(lines))

\* getStreamEndMarker
StreamEndMarker == [kind |-> "done", content |-> ""]

\* reader.read() returns the next read; its lines are relayed.
SseRead ==
    /\ sse.pc = "reading"
    /\ sse.reads # << >>
    /\ sse' = [sse EXCEPT !.reads = Tail(@),
                          !.written = @ \o relayLines(splitLines(Head(sse.reads), << >>))]
    /\ UNCHANGED <<schedulerVars, res, call, serviceVars>>

\* reader.read() returns done: the end marker is written and the response
\* ended.
SseDone ==
    /\ sse.pc = "reading"
    /\ sse.reads = << >>
    /\ sse' = [sse EXCEPT !.pc = "ended", !.written = Append(@, StreamEndMarker)]
    /\ UNCHANGED <<schedulerVars, res, call, serviceVars>>

InitSse ==
    /\ InitScheduler
    /\ strategy = "round_robin"
    /\ failureThreshold = 1
    /\ res = [r \in Slots |-> NoResponse]
    /\ call = IdleCall
    /\ InitServices
    /\ \E ds \in DeltaSeqs :
          \E cuts \in SUBSET (1..(Len(StreamBytes(ds)) - 1)) :
              sse = StreamInput(ds, cuts)

NextSse == SseRead \/ SseDone

SpecSse == InitSse /\ [][NextSse]_vars

-----------------------------------------------------------------------------
(* CircuitBreakerManager.cleanup: the expiry of idle breaker instances *)

\* expireTime (24 hours) in clock ticks, and the last clock reading of the
\* clean-up configuration.
ExpireTime == 2
GcMaxTime == 4

\* The time stamps after a handler took the store from S to T at time t,
\* having called allowRequest for `asked` (NoKey: for no key). allowRequest
\* writes stats.lastRequestTime; getOrCreateCircuitBreaker and the three
\* transitions write stateChangeTime.
stamped(st, S, T, asked, t) ==
    [k \in {x \in Keys : T.cb[x].exists} |->
        [lastRequestTime |-> IF k = asked THEN t
                             ELSE IF S.cb[k].exists THEN st[k].lastRequestTime
                             ELSE NONE,
         stateChangeTime |->
             IF \/ ~S.cb[k].exists
                \/ S.cb[k].state # T.cb[k].state
                \/ S.cb[k].nextAttemptTime # T.cb[k].nextAttemptTime
             THEN t
             ELSE st[k].stateChangeTime]]

\* lastActivity of cleanup: stats.lastRequestTime || stateChangeTime.
lastActivity(st) ==
    IF st.lastRequestTime # NONE THEN st.lastRequestTime ELSE st.stateChangeTime

\* cleanup deletes the instance of a key from the map.
expired(S, st, k, t) == S.cb[k].exists /\ t - lastActivity(st[k]) > ExpireTime

\* cleanup: the breaker instances it leaves. It does not touch LoadBalancer.
cleanup(S, st, t) ==
    [S EXCEPT !.cb = [k \in Keys |->
        IF expired(S, st, k, t) THEN AbsentCircuitBreaker ELSE S.cb[k]]]

\* A chat request with a valid body arrives and runs up to its upstream call.
GcChatRequest(r, keys) ==
    /\ FreeSlot(r)
    /\ TotalRequests < MaxRequests
    /\ LET b == beginChat(Store, "ok", keys, strategy, 0, failureThreshold, now) IN
       /\ SetStore(b.out)
       /\ req' = IF b.response = "none"
                 THEN [req EXCEPT ![r] =
                         [pc |-> "awaiting", keys |-> keys,
                          selectedApiKey |-> b.selected,
                          attempts |-> <<b.selected>>]]
                 ELSE req
       /\ lastSelection' = IF b.sel.ok /\ b.sel.roundRobin
                           THEN [available |-> b.sel.available, key |-> b.sel.key]
                           ELSE lastSelection
       /\ stamps' = stamped(stamps, Store, b.out, b.selected, now)
    /\ UNCHANGED <<now, failureThreshold, strategy, res, call, sse, verify, conv>>

\* The upstream call returns or throws; recordSuccess and recordFailure
\* create the breaker again if cleanup deleted it meanwhile.
GcUpstreamReturns(r, outcome) ==
    /\ req[r].pc = "awaiting"
    /\ LET T == endChat(Store, req[r].selectedApiKey, outcome, failureThreshold, now) IN
       /\ SetStore(T)
       /\ stamps' = stamped(stamps, Store, T, NoKey, now)
    /\ req' = [req EXCEPT ![r] = IdleRequest]
    /\ UNCHANGED <<now, failureThreshold, strategy, lastSelection, res, call, sse,
                   verify, conv>>

\* The timer of startCleanupTimer fires.
Cleanup ==
    /\ SetStore(cleanup(Store, stamps, now))
    /\ stamps' = [k \in {x \in DOMAIN stamps : ~expired(Store, stamps, x, now)} |->
                    stamps[k]]
    /\ UNCHANGED <<now, failureThreshold, strategy, req, lastSelection, res, call,
                   sse, verify, conv>>

GcTick ==
    /\ now < GcMaxTime
    /\ now' = now + 1
    /\ UNCHANGED <<failureThreshold, strategy, apiKeys, keyOrder, roundRobinIndex,
                   circuitBreakers, req, lastSelection, res, call, sse, serviceVars>>

InitGc == Init /\ strategy = "round_robin" /\ failureThreshold = 1

NextGc ==
    \/ \E r \in Slots, keys \in KeyLists : GcChatRequest(r, keys)
    \/ \E r \in Slots, outcome \in {"ok", "rejected"} : GcUpstreamReturns(r, outcome)
    \/ Sweep
    \/ Cleanup
    \/ GcTick

SpecGc == InitGc /\ [][NextGc]_vars

-----------------------------------------------------------------------------
(* KeyValidatorService: handleKeyVerification and its validation stream *)

\* maxConcurrentValidations (10) and the largest list accepted (50), scaled.
MaxConcurrentValidations == 2
MaxVerifyKeys == 3

\* How generateContent ends for a probe: with a response that is ok, with an
\* HTTP error status, with a network failure, or with the request's own
\* timeout (fetchWithTimeout's abort).
ProbeOutcomes == {"ok", "http", "fetch_network", "fetch_timeout"}

\* validateSingleKey not called yet for a key of the list.
WaitingProbe ==
    [race |-> "waiting", upstream |-> "none", outcome |-> "none", verdict |-> "none"]

\* The end marker of the validation stream.
VerifyDone == [key |-> 0, status |-> "DONE"]

\* validateApiKey: every error of generateContent is caught and returned.
validateApiKey(outcome) == [valid |-> outcome = "ok"]

\* validateSingleKey for a non-empty key: the status it returns when the
\* race of validateApiKey and createTimeoutPromise settles.
validateSingleKey(settled) ==
    IF settled = "race_timeout" THEN "ERROR"
    ELSE IF validateApiKey(settled).valid THEN "GOOD" ELSE "BAD"

\* The keys (by position) of the batch that starts after position i.
batchOf(v) ==
    {j \in 1..v.n : v.i < j /\ j <= v.i + MaxConcurrentValidations}

\* batch.map(...): validateSingleKey is called for every key of the batch,
\* and each call runs up to its await with the upstream request sent.
launch(v) ==
    [v EXCEPT !.probes = [j \in 1..v.n |->
        IF j \in batchOf(v)
        THEN [v.probes[j] EXCEPT !.race = "racing", !.upstream = "outstanding"]
        ELSE v.probes[j]]]

\* The loop of createStreamValidation that enqueues the end marker and
\* closes as soon as its first batch is complete.
advanceOneBatch(v) ==
    IF \E j \in batchOf(v) : v.probes[j].race # "settled" THEN v
    ELSE [v EXCEPT !.i = v.i + MaxConcurrentValidations,
                   !.events = Append(v.events, VerifyDone),
                   !.closed = TRUE, !.pc = "done"]

\* The loop of createStreamValidation after a probe of the batch settled:
\* once Promise.all resolves, the next batch, or the end marker and close
\* (and the handler's read loop ends the response).
advance(v) ==
    IF \E j \in batchOf(v) : v.probes[j].race # "settled" THEN v
    ELSE LET w == [v EXCEPT !.i = v.i + MaxConcurrentValidations] IN
         IF w.i < w.n THEN launch(w)
         ELSE [w EXCEPT !.events = Append(v.events, VerifyDone),
                        !.closed = TRUE, !.pc = "done"]

\* The race of probe j settles: its result is enqueued at once.
settle(v, j, settled) ==
    LET status == validateSingleKey(settled) IN
    advance([v EXCEPT !.probes[j].race = "settled",
                      !.probes[j].outcome = settled,
                      !.probes[j].verdict = status,
                      !.events = Append(v.events, [key |-> j, status |-> status])])

\* The run of handleKeyVerification for n keys, before anything happened.
NewVerify(n) ==
    [pc |-> "running", n |-> n, i |-> 0, probes |-> << >>, events |-> << >>,
     closed |-> FALSE, statusCode |-> 0]

\* handleKeyVerification with the registration of handleChatCompletions:
\* the keys of an accepted request are added to the load balancer.
VerifyRequestRegisters(n) ==
    /\ verify.pc = "idle"
    /\ verify' =
         IF n = 0
         THEN [NewVerify(n) EXCEPT !.pc = "rejected", !.statusCode = 401]
         ELSE IF n > MaxVerifyKeys
         THEN [NewVerify(n) EXCEPT !.pc = "rejected", !.statusCode = 400]
         ELSE launch([NewVerify(n) EXCEPT !.statusCode = 200,
                                          !.probes = [j \in 1..n |-> WaitingProbe]])
    /\ SetStore(IF n \in 1..MaxVerifyKeys THEN addApiKeys(Store, <<"k3">>) ELSE Store)
    /\ UNCHANGED <<now, failureThreshold, strategy, req, lastSelection, res, call,
                   sse, stamps, conv>>

\* A POST to /verify whose headers yield n keys.
VerifyRequest(n) ==
    /\ verify.pc = "idle"
    /\ verify' =
         IF n = 0
         THEN [NewVerify(n) EXCEPT !.pc = "rejected", !.statusCode = 401]
         ELSE IF n > MaxVerifyKeys
         THEN [NewVerify(n) EXCEPT !.pc = "rejected", !.statusCode = 400]
         ELSE launch([NewVerify(n) EXCEPT !.statusCode = 200,
                                          !.probes = [j \in 1..n |-> WaitingProbe]])
    /\ UNCHANGED <<schedulerVars, res, call, sse, stamps, conv>>

\* The upstream call of probe j ends while validateSingleKey awaits it.
ProbeReturns(j, outcome) ==
    /\ verify.pc = "running"
    /\ j \in 1..verify.n
    /\ verify.probes[j].race = "racing"
    /\ verify' = settle([verify EXCEPT !.probes[j].upstream = "returned"], j, outcome)
    /\ UNCHANGED <<schedulerVars, res, call, sse, stamps, conv>>

\* The timer of createTimeoutPromise fires first: the race rejects, and the
\* upstream call goes on, since nothing aborts it.
ProbeTimesOut(j) ==
    /\ verify.pc = "running"
    /\ j \in 1..verify.n
    /\ verify.probes[j].race = "racing"
    /\ verify' = settle(verify, j, "race_timeout")
    /\ UNCHANGED <<schedulerVars, res, call, sse, stamps, conv>>

\* The upstream call of a probe whose race was lost ends: nobody listens.
LateReturn(j) ==
    /\ verify.pc \in {"running", "done"}
    /\ j \in 1..verify.n
    /\ verify.probes[j].race = "settled"
    /\ verify.probes[j].upstream = "outstanding"
    /\ verify' = [verify EXCEPT !.probes[j].upstream = "returned"]
    /\ UNCHANGED <<schedulerVars, res, call, sse, stamps, conv>>

InitVerify == Init /\ strategy = "round_robin" /\ failureThreshold = 1

NextVerify ==
    \/ \E n \in 0..(MaxVerifyKeys + 1) : VerifyRequest(n)
    \/ \E j \in 1..MaxVerifyKeys, outcome \in ProbeOutcomes : ProbeReturns(j, outcome)
    \/ \E j \in 1..MaxVerifyKeys : ProbeTimesOut(j)
    \/ \E j \in 1..MaxVerifyKeys : LateReturn(j)

\* The timers of createTimeoutPromise fire: no race stays pending for ever.
SpecVerify ==
    InitVerify /\ [][NextVerify]_vars
    /\ WF_vars(\E j \in 1..MaxVerifyKeys : ProbeTimesOut(j))

\* The two routes of the worker together: validations run while chat
\* requests for one credential are served, the sweeper fires and the clock
\* advances.
FrontVerifyKeys == 1

NextFront ==
    \/ \E n \in (0..FrontVerifyKeys) \cup {MaxVerifyKeys + 1} : VerifyRequest(n)
    \/ \E j \in 1..MaxVerifyKeys, outcome \in ProbeOutcomes : ProbeReturns(j, outcome)
    \/ \E j \in 1..MaxVerifyKeys : ProbeTimesOut(j)
    \/ \E j \in 1..MaxVerifyKeys : LateReturn(j)
    \/ \E r \in Slots : ChatRequest(r, "ok", <<"k1">>, 0)
    \/ \E r \in Slots, outcome \in {"ok", "rejected"} : UpstreamReturns(r, outcome)
    \/ Sweep
    \/ Tick

SpecFront == InitVerify /\ [][NextFront]_vars

-----------------------------------------------------------------------------
(* Conversions: header parsing, request translation, stream chunk translation *)

MaxHeaderLen == 5
MaxMessages == 3
MaxCandidates == 2

\* A header value is a string over a key letter or two, the blank and the
\* comma.
Chars == {"a", "b", " ", ","}

HeaderStrings == UNION {[1..n -> Chars] : n \in 0..MaxHeaderLen}

\* The Authorization header: absent, or a scheme prefix and the rest.
AuthHeaders ==
    {[present |-> FALSE, scheme |-> "Bearer ", rest |-> << >>]}
    \cup [present : {TRUE}, scheme : {"Bearer ", "Basic "}, rest : HeaderStrings]

\* The x-goog-api-key header: absent, empty, one key, two keys.
GoogHeaders ==
    {[present |-> FALSE, value |-> << >>],
     [present |-> TRUE, value |-> << >>],
     [present |-> TRUE, value |-> <<"b">>],
     [present |-> TRUE, value |-> <<" ", "a", ",", "b">>]}

\* String.prototype.split(',')
RECURSIVE split(_)
split(str) ==
    LET commas == {i \in 1..Len(str) : str[i] = ","} IN
    IF commas = {} THEN <<str>>
    ELSE LET i == CHOOSE c \in commas : \A d \in commas : c <= d
         IN <<SubSeq(str, 1, i - 1)>> \o split(SubSeq(str, i + 1, Len(str)))

\* String.prototype.trim
trim(str) ==
    LET solid == {i \in 1..Len(str) : str[i] # " "} IN
    IF solid = {} THEN << >>
    ELSE SubSeq(str, CHOOSE a \in solid : \A b \in solid : a <= b,
                     CHOOSE a \in solid : \A b \in solid : a >= b)

\* map(f) over an array
mapTrim(segments) == [i \in 1..Len(segments) |-> trim(segments[i])]

\* filter((key, index, array) => array.indexOf(key) === index)
firstOccurrences(keys) ==
    LET F[i \in 0..Len(keys)] ==
            IF i = 0 THEN << >>
            ELSE IF \E j \in 1..(i - 1) : keys[j] = keys[i]
                 THEN F[i - 1]
                 ELSE Append(F[i - 1], keys[i])
    IN F[Len(keys)]

\* parseApiKeyString without the last filter.
parseApiKeyStringKeepsDuplicates(str) ==
    IF str = << >> THEN << >>
    ELSE SelectSeq(mapTrim(split(str)), LAMBDA key : Len(key) > 0)

\* parseApiKeyString
parseApiKeyString(str) ==
    IF str = << >> THEN << >>
    ELSE firstOccurrences(SelectSeq(mapTrim(split(str)), LAMBDA key : Len(key) > 0))

\* extractApiKeys of the request handler, from the two headers: the keys, or
\* ok FALSE where it throws AuthenticationException.
headerApiKeys(h) ==
    LET fromAuth == IF h.auth.present /\ h.auth.scheme = "Bearer "
                    THEN parseApiKeyString(h.auth.rest)
                    ELSE << >>
        fromGoog == IF h.goog.present /\ h.goog.value # << >>
                    THEN parseApiKeyString(h.goog.value)
                    ELSE << >>
    IN IF Len(fromAuth) > 0 THEN [ok |-> TRUE, keys |-> fromAuth]
       ELSE IF Len(fromGoog) > 0 THEN [ok |-> TRUE, keys |-> fromGoog]
       ELSE [ok |-> FALSE, keys |-> << >>]

\* Array.prototype.join(',')
RECURSIVE join(_)
join(keys) ==
    IF keys = << >> THEN << >>
    ELSE IF Len(keys) = 1 THEN keys[1]
    ELSE keys[1] \o <<",">> \o join(Tail(keys))

\* A message text is a sequence of words; the empty text is the empty string.
Texts == {<< >>, <<"x">>, <<"y">>}

Messages ==
    UNION {[1..n -> [role : {"system", "user", "assistant"}, content : Texts]] :
              n \in 0..MaxMessages}

\* mapOpenAIRoleToGemini
mapOpenAIRoleToGemini(role) ==
    CASE role = "user" -> "user"
      [] role = "assistant" -> "model"
      [] role = "tool" -> "function"
      [] OTHER -> "user"

\* convertMessagesToContents, for messages of text only: the text of a
\* content is its parts[0].text.
convertMessagesToContents(messages) ==
    LET systems == {i \in 1..Len(messages) : messages[i].role = "system"}
        \* the loop overwrites systemInstruction at every system message
        systemInstruction ==
            IF systems = {} THEN << >>
            ELSE messages[CHOOSE i \in systems : \A j \in systems : i >= j].content
        others == SelectSeq(messages, LAMBDA m : m.role # "system")
        contents == [i \in 1..Len(others) |->
                        [role |-> mapOpenAIRoleToGemini(others[i].role),
                         text |-> others[i].content]]
    IN IF /\ systemInstruction # << >>
          /\ Len(contents) > 0
          /\ contents[1].role = "user"
          /\ contents[1].text # << >>
       THEN [contents EXCEPT ![1].text =
                systemInstruction \o <<"\n", "\n">> \o contents[1].text]
       ELSE contents

\* The finishReason values of Gemini; "none" is a field that is not there.
FinishReasons == {"none", "STOP", "MAX_TOKENS", "SAFETY", "RECITATION", "OTHER"}

Candidates == [finishReason : FinishReasons, text : {"", "lo"}]

\* A parsed upstream event: its candidates, and a finishReason field of the
\* event itself, which Gemini does not send.
Chunks ==
    [finishReason : {"none", "MAX_TOKENS"},
     candidates : UNION {[1..n -> Candidates] : n \in 0..MaxCandidates}]

\* mapGeminiFinishReasonToOpenAI
mapGeminiFinishReasonToOpenAI(finishReason) ==
    CASE finishReason = "STOP" -> "stop"
      [] finishReason = "MAX_TOKENS" -> "length"
      [] finishReason \in {"SAFETY", "RECITATION"} -> "content_filter"
      [] finishReason = "OTHER" -> "stop"
      [] OTHER -> "null"

\* convertGeminiChunkToDelta: the content of the delta, "none" when it has
\* no content field.
convertGeminiChunkToDelta(chunk) ==
    IF Len(chunk.candidates) > 0 /\ chunk.candidates[1].text # ""
    THEN chunk.candidates[1].text
    ELSE "none"

\* choices[0] of the chunk that convertStreamChunkToOpenAI writes.
streamChoice(chunk) ==
    [delta |-> convertGeminiChunkToDelta(chunk),
     finish_reason |-> mapGeminiFinishReasonToOpenAI(chunk.finishReason)]

Pending(kind, input) ==
    [pc |-> "pending", kind |-> kind, input |-> input, output |-> << >>]

ExtractKeys ==
    /\ conv.pc = "pending"
    /\ conv.kind = "headers"
    /\ conv' = [conv EXCEPT !.pc = "done", !.output = headerApiKeys(conv.input)]
    /\ UNCHANGED <<schedulerVars, res, call, sse, stamps, verify>>

ConvertMessages ==
    /\ conv.pc = "pending"
    /\ conv.kind = "messages"
    /\ conv' = [conv EXCEPT !.pc = "done",
                            !.output = convertMessagesToContents(conv.input)]
    /\ UNCHANGED <<schedulerVars, res, call, sse, stamps, verify>>

ConvertChunk ==
    /\ conv.pc = "pending"
    /\ conv.kind = "chunk"
    /\ conv' = [conv EXCEPT !.pc = "done", !.output = streamChoice(conv.input)]
    /\ UNCHANGED <<schedulerVars, res, call, sse, stamps, verify>>

InitConvert ==
    /\ InitScheduler
    /\ strategy = "round_robin"
    /\ failureThreshold = 1
    /\ res = [r \in Slots |-> NoResponse]
    /\ call = IdleCall
    /\ sse = IdleSse
    /\ stamps = NoStamps
    /\ verify = IdleVerify
    /\ \/ \E auth \in AuthHeaders, goog \in GoogHeaders :
              conv = Pending("headers", [auth |-> auth, goog |-> goog])
       \/ \E messages \in Messages : conv = Pending("messages", messages)
       \/ \E chunk \in Chunks : conv = Pending("chunk", chunk)

NextConvert == ExtractKeys \/ ConvertMessages \/ ConvertChunk

SpecConvert == InitConvert /\ [][NextConvert]_vars

-----------------------------------------------------------------------------
(* Recovery of a tripped credential: requests keep arriving for one        *)
(* credential, the sweeper keeps running, the clock advances, and upstream *)
(* calls fail only while the breaker is CLOSED.  The counters are capped:  *)
(* a call may fail only while the requests and the time that a recovery    *)
(* takes are still left.                                                   *)

LiveMaxTime == 4
LiveMaxRequests == 8

\* The credential list of every request of this configuration.
LiveKeys == <<"k1">>

\* A chat request with a valid body arrives and runs up to its upstream call.
LiveRequest(r) ==
    /\ FreeSlot(r)
    /\ TotalRequests < LiveMaxRequests
    /\ \E b \in {beginChat(Store, "ok", LiveKeys, strategy, 0, failureThreshold, now)} :
       /\ SetStore(b.out)
       /\ req' = IF b.response = "none"
                 THEN [req EXCEPT ![r] =
                         [pc |-> "awaiting", keys |-> LiveKeys,
                          selectedApiKey |-> b.selected,
                          attempts |-> <<b.selected>>]]
                 ELSE req
       /\ lastSelection' = IF b.sel.ok /\ b.sel.roundRobin
                           THEN [available |-> b.sel.available, key |-> b.sel.key]
                           ELSE lastSelection
    /\ UNCHANGED <<now, failureThreshold, strategy, res, call, sse, serviceVars>>

\* The requests a recovery may take: the rejections that trip the load
\* balancer's record again after a late success, and the probes.
RecoveryRequests == failureThreshold + ProbesToClose

\* An upstream call may still fail: the credential is ELIGIBLE and a
\* recovery fits into what is left of the counters.
MayFail(k) ==
    /\ Eligible(circuitBreakers[k])
    /\ TotalRequests + RecoveryRequests <= LiveMaxRequests
    /\ now + 2 * ResetTimeout <= LiveMaxTime

\* The upstream call of a request returns.
LiveSucceeds(r) ==
    /\ req[r].pc = "awaiting"
    /\ SetStore(endChat(Store, req[r].selectedApiKey, "ok", failureThreshold, now))
    /\ req' = [req EXCEPT ![r] = IdleRequest]
    /\ UNCHANGED <<now, failureThreshold, strategy, lastSelection, res, call, sse, serviceVars>>

\* The upstream call of a request throws.
LiveFails(r) ==
    /\ req[r].pc = "awaiting"
    /\ MayFail(req[r].selectedApiKey)
    /\ SetStore(endChat(Store, req[r].selectedApiKey, "rejected", failureThreshold, now))
    /\ req' = [req EXCEPT ![r] = IdleRequest]
    /\ UNCHANGED <<now, failureThreshold, strategy, lastSelection, res, call, sse, serviceVars>>

LiveTick ==
    /\ now < LiveMaxTime
    /\ now' = now + 1
    /\ UNCHANGED <<failureThreshold, strategy, apiKeys, keyOrder, roundRobinIndex,
                   circuitBreakers, req, lastSelection, res, call, sse, serviceVars>>

NextLive ==
    \/ \E r \in Slots : LiveRequest(r)
    \/ \E r \in Slots : LiveSucceeds(r)
    \/ \E r \in Slots : LiveFails(r)
    \/ Sweep
    \/ LiveTick

\* What keeps happening: the interval timer of the sweeper fires, the clock
\* advances, requests arrive and upstream calls return.
LiveProgress ==
    \/ \E r \in Slots : LiveRequest(r)
    \/ \E r \in Slots : LiveSucceeds(r)
    \/ Sweep
    \/ LiveTick

\* Every behaviour ends once the counters are used up, so one fairness
\* condition on the four together makes each of them run as long as it can.
SpecLive == InitRR /\ [][NextLive]_vars /\ WF_vars(LiveProgress)

-----------------------------------------------------------------------------
(* Claims *)

\* C1: a credential that is TRIPPED (breaker OPEN, cooldown not yet elapsed)
\* is never handed out by selection: no step increments its request counter.
C1_TrippedNeverSelected ==
    [][\A k \in Keys :
          CoolingDown(circuitBreakers[k], now) =>
              apiKeys'[k].requestCount = apiKeys[k].requestCount]_vars

\* C2: counted from ELIGIBLE, the failure that brings the consecutive-failure
\* count to failure_threshold leaves the credential TRIPPED with
\* cooldown_until = now + cooldown_duration; every earlier failure leaves it
\* ELIGIBLE; the count restarts at 0 whenever the credential becomes ELIGIBLE
\* or records a success while ELIGIBLE, and only failures raise it.
C2_TripsExactlyAtThreshold ==
    [][\A k \in Keys :
          LET c == circuitBreakers[k]
              d == circuitBreakers'[k]
          IN  /\ Eligible(c) => c.failureCount < failureThreshold
              /\ c # d =>
                   /\ (Eligible(c) /\ FailureRecorded(c, d)) =>
                         IF c.failureCount + 1 = failureThreshold
                         THEN Tripped(d) /\ d.nextAttemptTime = now + ResetTimeout
                         ELSE Eligible(d)
                   /\ (Eligible(c) /\ ~FailureRecorded(c, d)) =>
                         (Eligible(d) /\ d.failureCount \in {c.failureCount, 0})
                   /\ (Eligible(c) /\ SuccessRecorded(c, d)) => d.failureCount = 0
                   /\ (~Eligible(c) /\ Eligible(d)) => d.failureCount = 0]_vars

\* C2 witness: a credential just tripped by its second consecutive failure.
C2_Witness ==
    \E k \in Keys :
        /\ failureThreshold = 2
        /\ Tripped(circuitBreakers[k])
        /\ circuitBreakers[k].failureCount = failureThreshold
        /\ circuitBreakers[k].nextAttemptTime = now + ResetTimeout

\* C3: while PROBING, a recorded success keeps the credential PROBING with
\* the probe counter raised by one, or, exactly when the counter reaches 3,
\* makes it ELIGIBLE with consecutive_failures = 0; a recorded failure makes
\* it TRIPPED with a fresh cooldown and the probe counter cleared.
C3_ProbingTransitions ==
    [][\A k \in Keys :
          LET c == circuitBreakers[k]
              d == circuitBreakers'[k]
          IN  /\ Probing(c) => c.halfOpenSuccessCount < 3
              /\ (Probing(c) /\ SuccessRecorded(c, d)) =>
                    IF c.halfOpenSuccessCount + 1 = 3
                    THEN Eligible(d) /\ d.failureCount = 0
                    ELSE /\ Probing(d)
                         /\ d.halfOpenSuccessCount = c.halfOpenSuccessCount + 1
              /\ (Probing(c) /\ FailureRecorded(c, d)) =>
                    /\ Tripped(d)
                    /\ d.nextAttemptTime = now + ResetTimeout
                    /\ d.halfOpenSuccessCount = 0]_vars

\* C3 witness: a credential still PROBING after two probe successes.
C3_Witness ==
    \E k \in Keys :
        /\ Probing(circuitBreakers[k])
        /\ circuitBreakers[k].halfOpenSuccessCount = 2

\* A well-formed chat request carrying only k is handed k, which becomes
\* PROBING in that step.
SelectsAndProbes(k) ==
    \E r \in Slots, pick \in Picks :
        /\ ChatRequest(r, "ok", <<k>>, pick)
        /\ req'[r].pc = "awaiting"
        /\ req'[r].selectedApiKey = k
        /\ Probing(circuitBreakers'[k])

\* C4: a TRIPPED credential whose cooldown has elapsed is returned by the
\* next selection and becomes PROBING at that selection, whether or not the
\* sweeper has run (stated for the credential being the only one registered,
\* so that the selection has no other choice).
C4_LazyRecoveryAtSelection ==
    \A k \in Keys :
        (/\ keyOrder = <<k>>
         /\ CooledDown(circuitBreakers[k], now)
         /\ TotalRequests < MaxRequests
         /\ \E r \in Slots : FreeSlot(r))
        => ENABLED SelectsAndProbes(k)

\* C5: when the upstream call fails with a credential rejection, a timeout
\* or a 5xx and the request carries a credential not yet tried, the request
\* goes on with a further attempt on a different credential.
C5_FailoverOnEligibleError ==
    [][\A r \in Slots, o \in FailoverEligible :
          (/\ UpstreamReturns(r, o)
           /\ Range(req[r].keys) \ Range(req[r].attempts) # {})
          => /\ req'[r].pc = "awaiting"
             /\ Len(req'[r].attempts) = Len(req[r].attempts) + 1
             /\ req'[r].selectedApiKey \notin Range(req[r].attempts)]_vars

\* C6: a request makes at most as many credential attempts as it carries
\* credentials, and never attempts a credential twice.
C6_AttemptBudget ==
    \A r \in Slots :
        /\ Len(req[r].attempts) <= Len(req[r].keys)
        /\ NoDuplicates(req[r].attempts)

\* C6 witness: a request carrying two credentials with its one attempt made.
C6_Witness ==
    \E r \in Slots :
        /\ req[r].pc = "awaiting"
        /\ Len(req[r].keys) = 2
        /\ Len(req[r].attempts) = 1

\* C7: health is TRIPPED if and only if cooldown_until is set (in the
\* breaker's record and in the load balancer's), and a cooldown_until that a
\* step sets is strictly later than the time of that step.
C7_TrippedIffCooldownSet ==
    [][\A k \in Keys :
          /\ Tripped(circuitBreakers'[k]) <=> circuitBreakers'[k].nextAttemptTime # NONE
          /\ apiKeys'[k].status = "circuit_broken"
                 <=> apiKeys'[k].circuitBreakerResetTime # NONE
          /\ (/\ circuitBreakers'[k].nextAttemptTime # NONE
              /\ circuitBreakers'[k].nextAttemptTime # circuitBreakers[k].nextAttemptTime)
             => circuitBreakers'[k].nextAttemptTime > now]_vars

\* C8: total_requests >= total_successes + total_failures, for every
\* credential, in the breaker's statistics and in the load balancer's.
C8_RequestsCoverOutcomes ==
    \A k \in Keys :
        /\ circuitBreakers[k].requestCount >=
               circuitBreakers[k].successCount + circuitBreakers[k].failureCount
        /\ apiKeys[k].requestCount >=
               apiKeys[k].successCount + apiKeys[k].failureCount

\* C8 witness: a credential with a success and a failure recorded and no
\* request outstanding.
C8_Witness ==
    \E k \in Keys :
        /\ circuitBreakers[k].successCount >= 1
        /\ circuitBreakers[k].failureCount >= 1
        /\ circuitBreakers[k].requestCount =
               circuitBreakers[k].successCount + circuitBreakers[k].failureCount
        /\ apiKeys[k].successCount >= 1
        /\ apiKeys[k].failureCount >= 1
        /\ apiKeys[k].requestCount = apiKeys[k].successCount + apiKeys[k].failureCount

\* C9: total_requests, total_successes and total_failures never decrease.
C9_CountersMonotone ==
    [][\A k \in Keys :
          /\ circuitBreakers'[k].requestCount >= circuitBreakers[k].requestCount
          /\ circuitBreakers'[k].successCount >= circuitBreakers[k].successCount
          /\ circuitBreakers'[k].failureCount >= circuitBreakers[k].failureCount
          /\ apiKeys'[k].requestCount >= apiKeys[k].requestCount
          /\ apiKeys'[k].successCount >= apiKeys[k].successCount
          /\ apiKeys'[k].failureCount >= apiKeys[k].failureCount]_vars

\* C10: under round-robin the first selection returns the first eligible
\* credential in registration order, and a selection over the same eligible
\* list as the selection before it returns the credential that follows the
\* previous one in that list, wrapping around: k consecutive selections over
\* k eligible credentials return each exactly once, in registration order.
C10_RoundRobinVisitsInOrder ==
    [][(strategy = "round_robin" /\ apiKeys' # apiKeys
          /\ TotalRequests' = TotalRequests + 1) =>
          LET was == lastSelection
              is  == lastSelection'
              n   == Len(is.available)
          IN  /\ is.key \in Range(is.available)
              /\ was = NoSelection => is.key = is.available[1]
              /\ (was # NoSelection /\ was.available = is.available) =>
                     IndexOf(is.available, is.key) =
                         (IndexOf(is.available, was.key) % n) + 1]_vars

\* C10 witness: three eligible credentials, four selections: k1, k2, k3 and
\* k1 again.
C10_Witness ==
    /\ strategy = "round_robin"
    /\ lastSelection = [available |-> <<"k1", "k2", "k3">>, key |-> "k1"]
    /\ apiKeys["k1"].requestCount = 2
    /\ apiKeys["k2"].requestCount = 1
    /\ apiKeys["k3"].requestCount = 1

\* The credentials that selection chooses from: registered and available.
EligibleSet == {k \in Keys : apiKeys[k].registered /\ apiKeys[k].status = "available"}

C12_InFlightCountsOutstanding ==
    \A k \in Keys :
        apiKeys[k].requestCount =
            Cardinality({r \in Slots : req[r].pc # "idle" /\ req[r].selectedApiKey = k})

\* C13: one sweep makes every TRIPPED credential whose cooldown has elapsed
\* PROBING, with probe counter 0 and cooldown_until cleared, and leaves every
\* other credential unchanged.
C13_SweepProbesCooledDown ==
    [][Sweep =>
          \A k \in Keys :
              LET c == circuitBreakers[k]
                  d == circuitBreakers'[k]
              IN  IF CooledDown(c, now)
                  THEN /\ Probing(d)
                       /\ d.halfOpenSuccessCount = 0
                       /\ d.nextAttemptTime = NONE
                  ELSE d = c /\ apiKeys'[k] = apiKeys[k]]_vars

\* C14: a manual reset leaves the credential ELIGIBLE and eligible for
\* selection, with consecutive_failures = 0 and its cumulative totals
\* unchanged.
C14_ResetForcesEligible ==
    [][\A k \in Keys :
          Reset(k) =>
              /\ Eligible(circuitBreakers'[k])
              /\ circuitBreakers'[k].failureCount = 0
              /\ apiKeys[k].registered => apiKeys'[k].status = "available"
              /\ circuitBreakers'[k].requestCount = circuitBreakers[k].requestCount
              /\ circuitBreakers'[k].successCount = circuitBreakers[k].successCount
              /\ apiKeys'[k].requestCount = apiKeys[k].requestCount
              /\ apiKeys'[k].successCount = apiKeys[k].successCount
              /\ apiKeys'[k].failureCount = apiKeys[k].failureCount]_vars

\* A credential with no success and no failure on record.
NoEventYet(c) == Eligible(c) /\ c.successCount = 0 /\ c.failureCount = 0

\* C15 as stated: a credential whose first observed event is a failure is
\* afterwards ELIGIBLE with consecutive_failures = 1, whatever the threshold.
C15_FirstFailureNeverTrips ==
    [][\A k \in Keys :
          LET c == circuitBreakers[k]
              d == circuitBreakers'[k]
          IN  (NoEventYet(c) /\ FailureRecorded(c, d)) =>
                  (Eligible(d) /\ d.failureCount = 1)]_vars

\* C15 amended: after a first failure consecutive_failures = 1, and the
\* credential is ELIGIBLE if failure_threshold >= 2 and TRIPPED with
\* cooldown_until = now + cooldown_duration if failure_threshold = 1.
C15_FirstFailureTripsOnlyAtThresholdOne ==
    [][\A k \in Keys :
          LET c == circuitBreakers[k]
              d == circuitBreakers'[k]
          IN  (NoEventYet(c) /\ FailureRecorded(c, d)) =>
                  /\ d.failureCount = 1
                  /\ IF failureThreshold >= 2
                     THEN Eligible(d)
                     ELSE Tripped(d) /\ d.nextAttemptTime = now + ResetTimeout]_vars

\* C15 witness: under threshold 2, a credential ELIGIBLE after the failure
\* of its first request.
C15_Witness ==
    \E k \in Keys :
        /\ failureThreshold >= 2
        /\ Eligible(circuitBreakers[k])
        /\ circuitBreakers[k].requestCount = 1
        /\ circuitBreakers[k].successCount = 0
        /\ circuitBreakers[k].failureCount = 1

\* The failures after which a retry is due: a timeout, a network error, or
\* an upstream status outside {400, 401, 403, 404}.
RetryDue(outcome) ==
    \/ outcome.kind \in {"abort", "fetch_timeout"}
    \/ outcome.kind \in {"fetch_network", "fetch_other"}
    \/ outcome.kind = "http" /\ outcome.status \notin {400, 401, 403, 404}

\* C16: in the unary call, a failed attempt with retries remaining is
\* followed by a retry if and only if the failure is a timeout, a network
\* error or an upstream status outside {400, 401, 403, 404}.
C16_RetryIffRetryable ==
    [][\A outcome \in AttemptOutcomes :
          (/\ AttemptReturns(outcome)
           /\ outcome.kind # "ok"
           /\ ~call.stream
           /\ call.attempt < call.retryCount)
          => (call'.pc = "delaying" <=> RetryDue(outcome))]_vars

TypedErrors == {"UpstreamServiceException", "GatewayTimeoutException",
                "NetworkException", "ParseException"}

\* C17: a unary call issues at most retry_count + 1 upstream requests, a
\* streaming call exactly one, and every call ends with a response or a
\* typed error.
C17_BoundedAttemptsAndTermination ==
    /\ [](/\ call.requests <= call.retryCount + 1
          /\ call.stream => call.requests <= 1
          /\ call.pc # "idle" => call.requests >= 1
          /\ call.pc = "done" =>
                \/ call.result.kind = "response"
                \/ /\ call.result.kind = "error"
                   /\ call.result.error.class \in TypedErrors)
    /\ (call.pc = "fetching") ~> (call.pc = "done")

\* C17 witness: a unary call that ended with an error after retry_count + 1
\* requests, two of them retries.
C17_Witness ==
    /\ call.pc = "done"
    /\ ~call.stream
    /\ call.retryCount = 2
    /\ call.requests = 3
    /\ call.result.kind = "error"

\* C18: when the upstream fails after bytes have been written to the client,
\* the client's response is ended, the request ends without a further
\* attempt, and a failure is recorded against the credential used.
C18_MidStreamErrorEndsResponse ==
    [][\A r \in Slots :
          (StreamReadFails(r) /\ res[r].headersSent) =>
              LET k == req[r].selectedApiKey IN
              /\ res'[r].ended
              /\ req'[r].pc = "idle"
              /\ FailureRecorded(circuitBreakers[k], circuitBreakers'[k])
              /\ apiKeys'[k].failureCount = apiKeys[k].failureCount + 1]_vars

\* C19: a request whose client has closed the connection is recorded
\* against its credential as a failure, never as a success.
C19_ClientCloseRecordsFailure ==
    [][\A r \in Slots :
          (res[r].clientClosed /\ req[r].pc # "idle" /\ req'[r].pc = "idle") =>
              LET k == req[r].selectedApiKey IN
              /\ FailureRecorded(circuitBreakers[k], circuitBreakers'[k])
              /\ circuitBreakers'[k].successCount = circuitBreakers[k].successCount
              /\ apiKeys'[k].successCount = apiKeys[k].successCount]_vars

\* The delta.content values of the chunk events written, in order.
RECURSIVE Contents(_)
Contents(events) ==
    IF events = << >> THEN << >>
    ELSE (IF Head(events).kind = "chunk" THEN <<Head(events).content>> ELSE << >>)
         \o Contents(Tail(events))

\* C20: for any stream of upstream events each carrying one text delta and
\* any division of its bytes into reads, the relayed stream has exactly one
\* chunk event per upstream event, carrying the upstream deltas in order,
\* and ends with exactly one end marker.
C20_StreamRelayPreservesDeltas ==
    sse.pc = "ended" =>
        /\ Contents(sse.written) = sse.upstream
        /\ Len(sse.written) = Len(sse.upstream) + 1
        /\ sse.written[Len(sse.written)] = StreamEndMarker

\* C26: registering a credential that is already registered changes nothing
\* (record, statistics, breaker, position in registration order), and
\* registering a list twice equals registering it once.
C26_RegistrationIdempotent ==
    /\ \A k \in Keys :
          /\ apiKeys[k].registered => addApiKey(Store, k) = Store
          /\ circuitBreakers[k].exists => getOrCreateCircuitBreaker(Store, k, now) = Store
    /\ \A keys \in KeyLists :
          addApiKeys(addApiKeys(Store, keys), keys) = addApiKeys(Store, keys)

\* C26 witness: two credentials registered, the first of them circuit-broken
\* with statistics on record.
C26_Witness ==
    /\ Len(keyOrder) = 2
    /\ apiKeys[keyOrder[1]].status = "circuit_broken"
    /\ apiKeys[keyOrder[1]].requestCount >= 2
    /\ circuitBreakers[keyOrder[1]].exists

\* C30: a PROBING credential has no cooldown_until and a probe-success
\* counter in 0..2, and the counter is 0 whenever the credential enters
\* PROBING.
C30_ProbingWindow ==
    [][\A k \in Keys :
          LET c == circuitBreakers[k]
              d == circuitBreakers'[k]
          IN  Probing(d) =>
                  /\ d.nextAttemptTime = NONE
                  /\ d.halfOpenSuccessCount \in 0..(ProbesToClose - 1)
                  /\ ~Probing(c) => d.halfOpenSuccessCount = 0]_vars

\* C30 witness: a credential that entered PROBING a second time, after a
\* probe success and a probe failure.
C30_Witness ==
    \E k \in Keys :
        /\ Probing(circuitBreakers[k])
        /\ circuitBreakers[k].halfOpenSuccessCount = 0
        /\ circuitBreakers[k].successCount = 1
        /\ circuitBreakers[k].requestCount = 4

\* C29: when the periodic clean-up runs, a credential whose last observed
\* request (or creation, when it has none) is more than 24 hours old leaves
\* the registry, and every other credential stays with its breaker.
C29_IdleRecordsCollected ==
    [][Cleanup =>
        \A k \in Keys :
            apiKeys[k].registered /\ circuitBreakers[k].exists =>
                IF now - lastActivity(stamps[k]) > ExpireTime
                THEN ~apiKeys'[k].registered /\ ~circuitBreakers'[k].exists
                ELSE apiKeys'[k].registered /\ circuitBreakers'[k].exists]_vars

\* The verdict events of the validation stream for key j.
VerdictsOf(j) ==
    {e \in 1..Len(verify.events) : verify.events[e].key = j}

\* C22: an accepted validation request of n credentials yields exactly n
\* verdict events, one per credential, then one end marker and nothing
\* after it, and its stream always terminates.
C22_ValidationStreamComplete ==
    /\ [](verify.pc \in {"running", "done"} =>
            /\ verify.n \in 1..MaxVerifyKeys
            /\ \A j \in 1..verify.n : Cardinality(VerdictsOf(j)) <= 1
            /\ verify.closed <=> verify.pc = "done"
            /\ ~verify.closed => VerdictsOf(0) = {}
            /\ verify.closed =>
                 /\ Len(verify.events) = verify.n + 1
                 /\ verify.events[verify.n + 1] = VerifyDone
                 /\ \A j \in 1..verify.n :
                        /\ Cardinality(VerdictsOf(j)) = 1
                        /\ \A e \in VerdictsOf(j) :
                               verify.events[e].status = verify.probes[j].verdict)
    /\ (verify.pc = "running" ~> verify.pc = "done")

\* C22 witness: a stream of two batches has closed with a GOOD, a BAD and
\* an ERROR verdict.
C22_Witness ==
    /\ verify.pc = "done"
    /\ verify.n = MaxVerifyKeys
    /\ \A status \in {"GOOD", "BAD", "ERROR"} :
           \E j \in 1..verify.n : verify.probes[j].verdict = status

\* C23: at most 10 upstream probe calls are outstanding at any moment, and
\* the credentials are started in arrival-order batches of 10.
C23_AtMostTenProbesOutstanding ==
    verify.pc \in {"running", "done"} =>
        /\ Cardinality({j \in 1..verify.n :
                           verify.probes[j].upstream = "outstanding"})
               <= MaxConcurrentValidations
        /\ \A j \in 1..verify.n :
               (verify.probes[j].race # "waiting") <=>
                   (j <= verify.i + MaxConcurrentValidations)

\* C24: a probe's verdict is GOOD exactly when the upstream answered 200,
\* ERROR exactly when it ended in a network failure or a timeout, and BAD
\* for every other outcome.
C24_VerdictMapping ==
    verify.pc \in {"running", "done"} =>
        \A j \in 1..verify.n :
            LET p == verify.probes[j] IN
            p.race = "settled" =>
                /\ p.verdict = "GOOD" <=> p.outcome = "ok"
                /\ p.verdict = "ERROR" <=>
                       p.outcome \in {"fetch_network", "fetch_timeout", "race_timeout"}
                /\ p.verdict = "BAD" <=> p.outcome = "http"

\* C25: a validation request with an empty list or with more than 50
\* entries is answered 400 before any probe and any event; a list of 1 to 50
\* entries is accepted.
C25_ListSizeChecked ==
    /\ verify.pc = "rejected" =>
          /\ verify.n = 0 \/ verify.n > MaxVerifyKeys
          /\ verify.statusCode = 400
          /\ verify.events = << >>
          /\ verify.probes = << >>
    /\ verify.pc \in {"running", "done"} => verify.n \in 1..MaxVerifyKeys

\* The OpenAI finish reason the first candidate of an upstream event maps to.
FirstCandidateFinish(chunk) ==
    IF Len(chunk.candidates) = 0 THEN "null"
    ELSE mapGeminiFinishReasonToOpenAI(chunk.candidates[1].finishReason)

\* C21: the finish_reason of a downstream chunk is the mapped finish reason
\* of the upstream event's first candidate, and null only when that
\* candidate carries none.
C21_ChunkFinishReason ==
    conv.pc = "done" /\ conv.kind = "chunk" =>
        conv.output.finish_reason = FirstCandidateFinish(conv.input)

\* The comma-separated entries of a header value, trimmed: the position of
\* the comma (or string start) before each, and the entry.
EntriesOf(str) ==
    LET cuts == {0} \cup {i \in 1..Len(str) : str[i] = ","} \cup {Len(str) + 1} IN
    {[at |-> a, key |-> trim(SubSeq(str, a + 1, b - 1))] :
        <<a, b>> \in {c \in cuts \X cuts :
                        c[1] < c[2] /\ ~\E d \in cuts : c[1] < d /\ d < c[2]}}

\* The credentials a header value lists.
Listed(str) == {e.key : e \in EntriesOf(str)} \ {<< >>}

\* Where a credential first occurs in a header value.
FirstAt(str, key) ==
    CHOOSE a \in 0..Len(str) :
        /\ [at |-> a, key |-> key] \in EntriesOf(str)
        /\ \A e \in EntriesOf(str) : e.key = key => a <= e.at

\* keys is the list of the credentials of str: every entry trimmed, no empty
\* entry, no duplicate, in the order of first occurrence, and stable under
\* joining and parsing again.
ParsedFrom(str, keys) ==
    /\ Range(keys) = Listed(str)
    /\ NoDuplicates(keys)
    /\ \A i, j \in 1..Len(keys) :
           i < j => FirstAt(str, keys[i]) < FirstAt(str, keys[j])
    /\ \A i \in 1..Len(keys) :
           /\ keys[i] # << >>
           /\ keys[i][1] # " " /\ keys[i][Len(keys[i])] # " "
           /\ \A c \in 1..Len(keys[i]) : keys[i][c] # ","
    /\ parseApiKeyString(join(keys)) = keys

\* C27: the credentials of a request are the entries of the Bearer value,
\* or of x-goog-api-key when the Bearer value yields none, trimmed, without
\* empty entries and duplicates, in order; a request that yields none is
\* answered 401 and registers and selects nothing.
C27_CredentialExtraction ==
    conv.pc = "done" /\ conv.kind = "headers" =>
        LET h == conv.input
            out == conv.output
            bearer == IF h.auth.present /\ h.auth.scheme = "Bearer "
                      THEN h.auth.rest ELSE << >>
            goog == IF h.goog.present THEN h.goog.value ELSE << >>
            source == IF Listed(bearer) # {} THEN bearer ELSE goog
        IN  /\ ParsedFrom(source, out.keys)
            /\ out.ok <=> out.keys # << >>
            /\ ~out.ok =>
                 \A keys \in KeyLists :
                     LET S == addApiKeys(Store, keys)
                         b == beginChat(S, "ok", out.keys, strategy, 0,
                                        failureThreshold, now)
                     IN  /\ b.response = "auth_missing"
                         /\ statusCode(b.response) = 401
                         /\ b.out = S
                         /\ ~b.sel.ok /\ b.selected = NoKey

\* C27 witness: a Bearer value with a repeated credential was parsed.
C27_Witness ==
    /\ conv.pc = "done" /\ conv.kind = "headers"
    /\ conv.input.auth.present /\ conv.input.auth.scheme = "Bearer "
    /\ conv.input.auth.rest = <<"a", ",", "b", ",", "a">>
    /\ conv.output.keys = << <<"a">>, <<"b">> >>

\* Texts joined with "\n".
RECURSIVE joinLines(_)
joinLines(texts) ==
    IF texts = << >> THEN << >>
    ELSE IF Len(texts) = 1 THEN texts[1]
    ELSE texts[1] \o <<"\n">> \o joinLines(Tail(texts))

\* C28: all system messages, joined in order with "\n", are put before the
\* text of the first user message with a blank line between; without a user
\* message a user content carries the system text.
C28_SystemMessagesFolded ==
    conv.pc = "done" /\ conv.kind = "messages" =>
        LET messages == conv.input
            systems == SelectSeq(messages, LAMBDA m : m.role = "system")
            folded == joinLines([i \in 1..Len(systems) |-> systems[i].content])
            users == {i \in 1..Len(messages) : messages[i].role = "user"}
        IN  systems # << >> =>
                IF users = {}
                THEN \E c \in 1..Len(conv.output) :
                         conv.output[c].role = "user" /\ conv.output[c].text = folded
                ELSE LET u == CHOOSE i \in users : \A j \in users : i <= j
                         p == Cardinality({i \in 1..u : messages[i].role # "system"})
                     IN  conv.output[p].text =
                             folded \o <<"\n", "\n">> \o messages[u].content

\* C31: under round-robin, whatever registrations, trips and recoveries came
\* before, a selection over a non-empty eligible set returns one of its
\* members and leaves the cursor inside it, also after the set has shrunk.
C31_CursorStaysInEligibleSet ==
    strategy = "round_robin" =>
        \A keys \in KeyListsRR :
            LET S1 == addApiKeys(Store, keys)
                E == {k \in Keys : S1.lb[k].registered /\ S1.lb[k].status = "available"}
                sel == selectApiKey(S1, strategy, 0)
            IN  E # {} =>
                    /\ sel.ok
                    /\ sel.key \in E
                    /\ sel.S.rr \in 0..(Cardinality(E) - 1)

\* C31 witness: the eligible set has shrunk to two credentials and the
\* cursor points past its end.
C31_Witness ==
    /\ strategy = "round_robin"
    /\ Cardinality(EligibleSet) = 2
    /\ Len(keyOrder) = 3
    /\ roundRobinIndex >= 2

\* C32: the credential of a chat request's upstream call is one of the
\* credentials of that request's own header.
C32_UsesOwnCredential ==
    \A r \in Slots :
        req[r].pc = "awaiting" => req[r].selectedApiKey \in Range(req[r].keys)

\* C33: a success recorded for a credential that is TRIPPED and cooling down
\* leaves it TRIPPED and excluded from selection.
C33_LateSuccessKeepsTripped ==
    [][\A k \in Keys :
          LET c == circuitBreakers[k]
              d == circuitBreakers'[k]
          IN  (CoolingDown(c, now) /\ SuccessRecorded(c, d)
                 /\ apiKeys[k].status = "circuit_broken") =>
                  /\ Tripped(d)
                  /\ apiKeys'[k].status = "circuit_broken"]_vars

\* C34: a registered credential is circuit-broken in the load balancer
\* exactly when its breaker is OPEN.
C34_StatusMatchesBreaker ==
    \A k \in Keys :
        apiKeys[k].registered =>
            (apiKeys[k].status = "circuit_broken" <=>
                (circuitBreakers[k].exists /\ Tripped(circuitBreakers[k])))

\* C35: a chat request that ends before any upstream call with a body
\* validation error, with no credential or with a translation error records
\* no failure and changes no credential's health.
C35_ClientErrorsRecordNothing ==
    \A body \in Bodies, keys \in KeyLists :
        LET b == beginChat(Store, body, keys, strategy, 0, failureThreshold, now) IN
        b.response \in {"validation_error", "auth_missing", "conversion_error"} =>
            \A k \in Keys :
                /\ b.out.lb[k].failureCount = apiKeys[k].failureCount
                /\ b.out.lb[k].status = apiKeys[k].status
                /\ b.out.cb[k].failureCount = circuitBreakers[k].failureCount
                /\ b.out.cb[k].state = circuitBreakers[k].state

\* C36: a request rejected because the chosen credential's breaker is OPEN
\* leaves that credential's failure counters and cooldown deadlines as they
\* were.
C36_RejectionCountsNoFailure ==
    \A keys \in KeyLists :
        LET b == beginChat(Store, "ok", keys, strategy, 0, failureThreshold, now) IN
        b.response = "circuit_open" =>
            LET k == b.selected IN
            /\ b.out.lb[k].failureCount = apiKeys[k].failureCount
            /\ b.out.cb[k].failureCount = circuitBreakers[k].failureCount
            /\ b.out.lb[k].circuitBreakerResetTime = apiKeys[k].circuitBreakerResetTime
            /\ b.out.cb[k].nextAttemptTime = circuitBreakers[k].nextAttemptTime

\* C37: a failure recorded while the credential is already TRIPPED changes
\* the cooldown deadline neither in the breaker's record nor in the load
\* balancer's.
C37_DeadlineSetOnlyByTrip ==
    [][\A k \in Keys :
          LET c == circuitBreakers[k]
              d == circuitBreakers'[k]
          IN  (c.exists /\ Tripped(c) /\ FailureRecorded(c, d)) =>
                  /\ d.nextAttemptTime = c.nextAttemptTime
                  /\ apiKeys'[k].circuitBreakerResetTime =
                         apiKeys[k].circuitBreakerResetTime]_vars

\* One outcome of a request recorded against credential k in this step: a
\* success or a failure, not both and not neither, the same one in the load
\* balancer's record and in the breaker's, and nothing against any other
\* credential.
OneOutcomeRecorded(k) ==
    LET a == apiKeys[k]
        b == apiKeys'[k]
        c == circuitBreakers[k]
        d == circuitBreakers'[k]
    IN  /\ (b.successCount = a.successCount + 1) # (b.failureCount = a.failureCount + 1)
        /\ b.successCount \in {a.successCount, a.successCount + 1}
        /\ SuccessRecorded(c, d) # FailureRecorded(c, d)
        /\ d.successCount \in {c.successCount, c.successCount + 1}
        /\ SuccessRecorded(c, d) <=> (b.successCount = a.successCount + 1)
        /\ \A j \in Keys \ {k} :
               /\ apiKeys'[j].successCount = apiKeys[j].successCount
               /\ apiKeys'[j].failureCount = apiKeys[j].failureCount
               /\ circuitBreakers'[j].successCount = circuitBreakers[j].successCount
               /\ circuitBreakers'[j].failureCount = circuitBreakers[j].failureCount

\* C38: when a chat request that obtained a credential finishes, exactly
\* one outcome is recorded against that credential: at the return or throw
\* of its upstream call or of a read of its stream, or within the arrival
\* step when the request ends before the call (rejected by the breaker, or
\* not convertible).
C38_ExactlyOneOutcome ==
    [][IF req' # req
       THEN \A r \in Slots :
                (req[r].pc # "idle" /\ req'[r].pc = "idle") =>
                    OneOutcomeRecorded(req[r].selectedApiKey)
       ELSE apiKeys' # apiKeys =>
                \A k \in Keys :
                    apiKeys'[k].requestCount = apiKeys[k].requestCount + 1 =>
                        /\ OneOutcomeRecorded(k)
                        /\ FailureRecorded(circuitBreakers[k], circuitBreakers'[k])]_vars

\* C38 witness: with threshold 2, a credential that served two requests,
\* one recorded as a success and one as a failure, and nothing in flight.
C38_Witness ==
    /\ failureThreshold = 2
    /\ \A r \in Slots : req[r].pc = "idle"
    /\ \E k \in Keys :
           /\ apiKeys[k].requestCount = 2
           /\ apiKeys[k].successCount = 1
           /\ circuitBreakers[k].successCount = 1
           /\ circuitBreakers[k].failureCount + apiKeys[k].failureCount >= 1

C40_VerifyLeavesSchedulerAlone ==
    [][verify' # verify =>
          UNCHANGED <<apiKeys, keyOrder, roundRobinIndex, circuitBreakers>>]_vars

\* C40 witness: a validation has delivered its verdicts while a credential
\* registered by a chat request is circuit-broken.
C40_Witness ==
    /\ verify.pc = "done"
    /\ Len(verify.events) >= 1
    /\ apiKeys["k1"].registered
    /\ apiKeys["k1"].status = "circuit_broken"
    /\ Tripped(circuitBreakers["k1"])

====
